---- MODULE Spec2Model ----
(***************************************************************************)
(* Model of the Go package aead.dev/mem: the saturating integer            *)
(* primitives (math.go), the Size and BitSize types (size.go, bitsize.go), *)
(* the formatter and parser of size strings (format.go), and the          *)
(* ProgressReader (progress.go).                                           *)
(*                                                                         *)
(* Go's int64/uint64 are modelled as IntBits-bit two's-complement words    *)
(* and float64 as a binary floating-point number with a FloatBits-bit      *)
(* significand (round to nearest, ties to even); every operation wraps,    *)
(* truncates and rounds where the Go operation does.                       *)
(***************************************************************************)
EXTENDS Integers, Sequences, FiniteSets, TLC

\* pc: the step a run is at; fn: the operation applied.
\* value, multiple, res, rem: the arguments of an arithmetic operation and
\* its results.  size, format, precision, str, parsed: the arguments of
\* FormatSize, the string formatted or given, and the result of ParseSize.
VARIABLES pc, fn, value, multiple, res, rem, size, format, precision, str, parsed

\* reader: the fields of a ProgressReader; clock: the time time.Now() reports;
\* reads: the results R.Read has returned so far; calls: the Progress values
\* Update has been called with (and when, and during which read of R);
\* ret: what the last Read call returned.
VARIABLES reader, clock, reads, calls, ret

vars == <<pc, fn, value, multiple, res, rem, size, format, precision, str, parsed,
          reader, clock, reads, calls, ret>>

progressVars == <<reader, clock, reads, calls, ret>>

arithVars == <<value, multiple, res, rem>>

formatVars == <<size, format, precision, str, parsed>>

(***************************************************************************)
(* Machine words.                                                          *)
(***************************************************************************)

\* Width of the model's int64/uint64 word.
IntBits == 16

\* Half-width of the neighbourhoods the arithmetic inputs are drawn from.
Near == 12

RECURSIVE Pow(_, _)
Pow(b, n) == IF n = 0 THEN 1 ELSE b * Pow(b, n - 1)

\* 2^IntBits: the number of values of a word.
WordSize == Pow(2, IntBits)

MaxInt64 == Pow(2, IntBits - 1) - 1

MinInt64 == -Pow(2, IntBits - 1)

Int64 == MinInt64 .. MaxInt64

\* int64(x): the signed word holding x modulo 2^IntBits (Go integer overflow wraps).
ToInt64(x) == ((x + Pow(2, IntBits - 1)) % WordSize) - Pow(2, IntBits - 1)

\* uint64(x): the unsigned word holding x modulo 2^IntBits.
ToUint64(x) == x % WordSize

\* Go's x / y on integers: the quotient truncated toward zero (y # 0).
Quo(x, y) ==
    LET ax == IF x < 0 THEN -x ELSE x
        ay == IF y < 0 THEN -y ELSE y
        q  == ax \div ay
    IN  IF (x < 0) = (y < 0) THEN q ELSE -q

\* Go's x % y on integers: the remainder, with the sign of x (y # 0).
Rem(x, y) == x - y * Quo(x, y)

(***************************************************************************)
(* math.go                                                                 *)
(***************************************************************************)

lessThanHalf(x, y) == ToUint64(ToUint64(x) + ToUint64(x)) < ToUint64(y)

\* abs without the special case of the minimum.
absNoSpecialCase(x) == IF x >= 0 THEN x ELSE ToInt64(-x)

abs(x) ==
    CASE x >= 0        -> x
      [] x = MinInt64  -> MaxInt64
      [] OTHER         -> ToInt64(-x)

\* truncate that rounds toward minus infinity (floored remainder).
truncateFloor(x, y) == IF y <= 0 THEN x ELSE ToInt64(x - (x % y))

\* truncate without the guard on the modulus (y = 0 would divide by zero).
truncateAbsMod(x, y) ==
    IF y = 0 THEN 0 ELSE ToInt64(x - Rem(x, IF y < 0 THEN -y ELSE y))

truncate(x, y) ==
    IF y <= 0 THEN x ELSE ToInt64(x - Rem(x, y))

\* round whose overflow check is missing: the wrapped sum is returned.
roundNoSaturation(x, y) ==
    IF y <= 0 THEN x
    ELSE LET r == Rem(x, y)
         IN  IF x < 0
             THEN IF lessThanHalf(x, y) THEN ToInt64(x - r)
                  ELSE ToInt64(x - y - r)
             ELSE IF lessThanHalf(r, y) THEN ToInt64(x - r)
                  ELSE ToInt64(x + y - r)

round(x, y) ==
    IF y <= 0 THEN x
    ELSE LET r == Rem(x, y)
         IN  IF x < 0
             THEN LET r1 == ToInt64(-r)
                      v1 == ToInt64(x - y + r1)
                  IN  IF lessThanHalf(x, y) THEN ToInt64(x + r1)
                      ELSE IF v1 < x THEN v1
                      ELSE MinInt64
             ELSE LET v1 == ToInt64(x + y - r)
                  IN  IF lessThanHalf(r, y) THEN ToInt64(x - r)
                      ELSE IF v1 > x THEN v1
                      ELSE MaxInt64

(***************************************************************************)
(* size.go (Size counted in bytes) and bitsize.go                          *)
(***************************************************************************)

\* Size.Bits with the thresholds off by one (>=, <=).
SizeBitsInclusive(s) ==
    CASE s >= Quo(MaxInt64, 8) -> MaxInt64
      [] s <= Quo(MinInt64, 8) -> MinInt64
      [] OTHER                 -> ToInt64(8 * s)

\* Size.Bits without saturation: the wrapped product is returned.
SizeBitsWrap(s) == ToInt64(8 * s)

SizeBits(s) ==
    CASE s > Quo(MaxInt64, 8) -> MaxInt64
      [] s < Quo(MinInt64, 8) -> MinInt64
      [] OTHER                -> ToInt64(8 * s)

BitSizeBytes(b) == <<Quo(b, 8), Rem(b, 8)>>

(***************************************************************************)
(* float64.  A finite non-negative float is [m |-> significand, e |->      *)
(* exponent], of value m * 2^e, with m = 0 or 2^(FloatBits-1) <= m <       *)
(* 2^FloatBits; Inf is the result of x / 0 with x > 0 and NaN that of      *)
(* 0 / 0.  The code never makes a negative float.                          *)
(***************************************************************************)

\* Bits of the significand: the largest binary unit of a word, 2^FloatBits,
\* is a float and 2^FloatBits + 1 is not (float64: PiB = 2^53 bits, int64).
FloatBits == IntBits - 3

Inf == [m |-> -1, e |-> 0]

NaN == [m |-> -2, e |-> 0]

FloatZero == [m |-> 0, e |-> 0]

IsFinite(x) == x.m >= 0

\* n / d * 2^e (n, d > 0) rounded to the nearest float, ties to even:
\* the quotient is brought to FloatBits bits, then the remainder decides.
RECURSIVE RoundRatio(_, _, _)
RoundRatio(n, d, e) ==
    IF n \div d < Pow(2, FloatBits - 1) THEN RoundRatio(2 * n, d, e - 1)
    ELSE IF n \div d >= Pow(2, FloatBits) THEN RoundRatio(n, 2 * d, e + 1)
    ELSE LET q  == n \div d
             r  == n % d
             up == 2 * r > d \/ (2 * r = d /\ q % 2 = 1)
             q1 == IF up THEN q + 1 ELSE q
         IN  IF q1 = Pow(2, FloatBits)
             THEN [m |-> Pow(2, FloatBits - 1), e |-> e + 1]
             ELSE [m |-> q1, e |-> e]

\* float64(n) of an unsigned word n.
Float64(n) == IF n = 0 THEN FloatZero ELSE RoundRatio(n, 1, 0)

\* x / y on float64.
FloatQuo(x, y) ==
    CASE ~IsFinite(x) \/ ~IsFinite(y) -> NaN
      [] y.m = 0 /\ x.m = 0           -> NaN
      [] y.m = 0                      -> Inf
      [] x.m = 0                      -> FloatZero
      [] OTHER                        -> RoundRatio(x.m, y.m, x.e - y.e)

\* x * y on float64.
FloatMul(x, y) ==
    CASE x = NaN \/ y = NaN                 -> NaN
      [] (x = Inf /\ y.m = 0) \/ (y = Inf /\ x.m = 0) -> NaN
      [] x = Inf \/ y = Inf                 -> Inf
      [] x.m = 0 \/ y.m = 0                 -> FloatZero
      [] OTHER                              -> RoundRatio(x.m * y.m, 1, x.e + y.e)

\* The conversion uint64(x) truncates toward zero; when the value is not
\* finite or does not fit the word, Go leaves the result to the implementation,
\* and `oor' is the word the build gives.
Uint64OfFloat(x, oor) ==
    CASE ~IsFinite(x)                      -> oor
      [] x.m = 0                           -> 0
      [] x.e + FloatBits > IntBits         -> oor
      [] x.e >= 0                          -> x.m * Pow(2, x.e)
      [] -x.e >= FloatBits                 -> 0
      [] OTHER                             -> x.m \div Pow(2, -x.e)

\* The words a build may give for an out-of-range uint64(x): 1 << 63 on
\* amd64, the saturated maximum on arm64, 0 for NaN there.
OutOfRange == {0, Pow(2, IntBits - 1), WordSize - 1}

(***************************************************************************)
(* Strings are sequences of one-character strings.                         *)
(***************************************************************************)

Digits == <<"0", "1", "2", "3", "4", "5", "6", "7", "8", "9">>

IsDigit(c) == \E i \in 1 .. 10 : Digits[i] = c

\* c - '0'
DigitValue(c) == (CHOOSE i \in 1 .. 10 : Digits[i] = c) - 1

\* The decimal digits of n >= 0, most significant first.
RECURSIVE NatDigits(_)
NatDigits(n) ==
    IF n < 10 THEN <<Digits[n + 1]>>
    ELSE NatDigits(n \div 10) \o <<Digits[(n % 10) + 1]>>

\* strconv.AppendInt(nil, n, 10)
AppendInt(n) == IF n < 0 THEN <<"-">> \o NatDigits(-n) ELSE NatDigits(n)

\* The k decimal digits of n < 10^k, zero-padded on the left.
RECURSIVE PadDigits(_, _)
PadDigits(n, k) ==
    IF k = 0 THEN << >>
    ELSE PadDigits(n \div 10, k - 1) \o <<Digits[(n % 10) + 1]>>

RECURSIVE Zeros(_)
Zeros(k) == IF k <= 0 THEN << >> ELSE <<"0">> \o Zeros(k - 1)

\* s[i:] of Go, i counted from 0.
Suffix(s, i) == SubSeq(s, i + 1, Len(s))

(***************************************************************************)
(* strconv.AppendFloat(nil, x, 'f', prec, 64) for a finite x >= 0.         *)
(***************************************************************************)

\* n / 2^k rounded to the nearest integer, ties to even.
RoundShift(n, k) ==
    IF k <= 0 THEN n * Pow(2, -k)
    ELSE IF k > 30 THEN 0
    ELSE LET d == Pow(2, k)
             q == n \div d
             r == n % d
         IN  IF 2 * r > d \/ (2 * r = d /\ q % 2 = 1) THEN q + 1 ELSE q

\* prec >= 0: x rounded (ties to even) to prec digits after the decimal
\* point; x * 10^prec = x.m * 5^prec * 2^(x.e + prec).
FixedFloat(x, prec) ==
    LET t == RoundShift(x.m * Pow(5, prec), -(x.e + prec))
        p == Pow(10, prec)
    IN  NatDigits(t \div p)
            \o (IF prec > 0 THEN <<".">> \o PadDigits(t % p, prec) ELSE << >>)

\* One more digit is generated after the digits d so far, last digit `last':
\* the rest of x is r / den, the float rounds to x from mlo / den below and
\* mhi / den above (the bounds themselves when `incl'); generation stops at
\* the first digit where the digits, or the digits plus one in the last
\* place, read back as x, and takes the nearer of the two that do.
RECURSIVE ShortestDigits(_, _, _, _, _, _)
ShortestDigits(last, r, den, mlo, mhi, incl) ==
    LET low  == r < mlo \/ (incl /\ r = mlo)
        high == r + mhi > den \/ (incl /\ r + mhi = den)
        up   == CASE low /\ high -> 2 * r > den \/ (2 * r = den /\ last % 2 = 1)
                  [] high        -> TRUE
                  [] OTHER       -> FALSE
    IN  IF low \/ high
        THEN <<IF up THEN last + 1 ELSE last>>
        ELSE <<last>> \o ShortestDigits((5 * r) \div (den \div 2),
                                        (5 * r) % (den \div 2),
                                        den \div 2, 5 * mlo, 5 * mhi, incl)

\* prec < 0: the fewest digits that read back as x, nearest to x.
ShortestFloat(x) ==
    IF x.e >= 0 THEN NatDigits(x.m * Pow(2, x.e))
    ELSE LET den == Pow(2, -x.e)
             ds  == ShortestDigits(x.m \div den, 4 * (x.m % den), 4 * den,
                                   IF x.m = Pow(2, FloatBits - 1) THEN 1 ELSE 2,
                                   2, x.m % 2 = 0)
         IN  NatDigits(ds[1])
                 \o (IF Len(ds) > 1
                     THEN <<".">> \o [i \in 1 .. (Len(ds) - 1) |-> Digits[ds[i + 1] + 1]]
                     ELSE << >>)

AppendFloat(x, prec) ==
    IF x.m = 0 THEN FixedFloat(x, IF prec < 0 THEN 0 ELSE prec)
    ELSE IF prec < 0 THEN ShortestFloat(x)
    ELSE FixedFloat(x, prec)

(***************************************************************************)
(* size.go (Size counted in bits): the unit constants.  A unit is kept as  *)
(* its factors, bits * step^power, since the larger ones exceed the word.  *)
(***************************************************************************)

\* k * u for the factors 8, 1000 and 1024 of the constant declarations.
Times(k, u) ==
    IF k = 8 THEN [u EXCEPT !.bits = 8 * u.bits]
    ELSE [bits |-> u.bits, step |-> k, power |-> u.power + 1]

Bit == [bits |-> 1, step |-> 1, power |-> 0]

KBit == Times(1000, Bit)

MBit == Times(1000, KBit)

GBit == Times(1000, MBit)

TBit == Times(1000, GBit)

Byte == Times(8, Bit)

KB == Times(1000, Byte)

MB == Times(1000, KB)

GB == Times(1000, MB)

TB == Times(1000, GB)

PB == Times(1000, TB)

KiB == Times(1024, Byte)

MiB == Times(1024, KiB)

GiB == Times(1024, MiB)

TiB == Times(1024, GiB)

PiB == Times(1024, TiB)

MaxSize == MaxInt64

minSize == MinInt64

\* n / step^power, truncated, for n >= 0.
RECURSIVE DivPower(_, _, _)
DivPower(n, step, power) ==
    IF power = 0 THEN n ELSE DivPower(n \div step, step, power - 1)

\* n / uint64(u) for an unsigned n.
QuoUnit(n, u) == DivPower(n, u.step, u.power) \div u.bits

\* The unit is a value of the word.
FitsWord(u) == QuoUnit(MaxInt64, u) >= 1

\* The unit as an integer, for a unit of the word.
Scale(u) == u.bits * Pow(u.step, u.power)

\* s >= u alone
AtLeastPositive(s, u) == s > 0 /\ QuoUnit(s, u) >= 1

\* s >= u || s <= -u
AtLeast(s, u) == QuoUnit(IF s < 0 THEN -s ELSE s, u) >= 1

\* Size(x) * u in the word.
MulUnit(x, u) == IF x = 0 THEN 0 ELSE ToInt64(x * Scale(u))

\* float64(u)
RECURSIVE FloatPower(_, _, _)
FloatPower(x, step, power) ==
    IF power = 0 THEN x
    ELSE FloatPower(FloatMul(x, Float64(step)), step, power - 1)

FloatOfUnit(u) ==
    IF FitsWord(u) THEN Float64(Scale(u))
    ELSE FloatPower(Float64(u.bits), u.step, u.power)

(***************************************************************************)
(* format.go                                                               *)
(***************************************************************************)

UnitTable ==
    { <<<<"b">>, Byte>>, <<<<"B">>, Byte>>,
      <<<<"b", "i", "t">>, Bit>>, <<<<"B", "i", "t">>, Bit>>,
      <<<<"k", "b">>, KB>>, <<<<"K", "B">>, KB>>,
      <<<<"k", "i", "b">>, KiB>>, <<<<"K", "i", "B">>, KiB>>,
      <<<<"k", "b", "i", "t">>, KBit>>, <<<<"K", "b", "i", "t">>, KBit>>,
      <<<<"m", "b">>, MB>>, <<<<"M", "B">>, MB>>,
      <<<<"m", "i", "b">>, MiB>>, <<<<"M", "i", "B">>, MiB>>,
      <<<<"m", "b", "i", "t">>, MBit>>, <<<<"M", "b", "i", "t">>, MBit>>,
      <<<<"g", "b">>, GB>>, <<<<"G", "B">>, GB>>,
      <<<<"g", "i", "b">>, GiB>>, <<<<"G", "i", "B">>, GiB>>,
      <<<<"g", "b", "i", "t">>, GBit>>, <<<<"G", "b", "i", "t">>, GBit>>,
      <<<<"t", "b">>, TB>>, <<<<"T", "B">>, TB>>,
      <<<<"t", "i", "b">>, TiB>>, <<<<"T", "i", "B">>, TiB>>,
      <<<<"t", "b", "i", "t">>, TBit>>, <<<<"T", "b", "i", "t">>, TBit>>,
      <<<<"p", "b">>, PB>>, <<<<"P", "B">>, PB>>,
      <<<<"p", "i", "b">>, PiB>>, <<<<"P", "i", "B">>, PiB>> }

\* The upper-case letter of a lower-case letter of the unit spellings.
Upper(c) ==
    CASE c = "b" -> "B" [] c = "i" -> "I" [] c = "t" -> "T" [] c = "k" -> "K"
      [] c = "m" -> "M" [] c = "g" -> "G" [] c = "p" -> "P" [] OTHER -> c

\* s and t are equal up to the case of their letters.
SameFold(s, t) ==
    /\ Len(s) = Len(t)
    /\ \A i \in 1 .. Len(s) : s[i] = t[i] \/ Upper(s[i]) = t[i] \/ s[i] = Upper(t[i])

\* parseUnit that ignores the case of the letters.
parseUnitAnyCase(s) ==
    IF \E e \in UnitTable : SameFold(e[1], s)
    THEN <<(CHOOSE e \in UnitTable : SameFold(e[1], s))[2], TRUE>>
    ELSE <<0, FALSE>>

\* parseUnit that accepts a string beginning with a spelling of the table.
parseUnitPrefix(s) ==
    IF \E e \in UnitTable : Len(e[1]) <= Len(s) /\ SubSeq(s, 1, Len(e[1])) = e[1]
    THEN <<(CHOOSE e \in UnitTable :
                Len(e[1]) <= Len(s) /\ SubSeq(s, 1, Len(e[1])) = e[1])[2], TRUE>>
    ELSE <<0, FALSE>>

\* parseUnit: <<unit, ok>>.
parseUnit(s) ==
    IF \E e \in UnitTable : e[1] = s
    THEN <<(CHOOSE e \in UnitTable : e[1] = s)[2], TRUE>>
    ELSE <<0, FALSE>>

\* The error result of ParseSize.
Invalid == [val |-> 0, ok |-> FALSE]

\* R := uint64(float64(r) / float64(l) * float64(unit))
FractionBits(r, l, unit, oor) ==
    Uint64OfFloat(FloatMul(FloatQuo(Float64(r), Float64(l)), FloatOfUnit(unit)), oor)

\* ParseFraction without the remapping of the minimum to the maximum.
ParseFractionNoRemap(s, i, neg, m, r, l, oor) ==
    LET pu   == parseUnit(Suffix(s, i))
        unit == pu[1]
        R    == FractionBits(r, l, unit, oor)
        sum  == ToInt64(MulUnit(ToInt64(m), unit) + ToInt64(R))
    IN  IF ~pu[2] THEN Invalid
        ELSE IF neg
        THEN IF m > QuoUnit(Pow(2, IntBits - 1), unit) THEN Invalid
             ELSE [val |-> ToInt64(-1 * sum), ok |-> TRUE]
        ELSE IF m > QuoUnit(MaxSize, unit) THEN Invalid
        ELSE [val |-> sum, ok |-> TRUE]

\* ParseSize at the first character after the fraction that is no digit.
ParseFraction(s, i, neg, m, r, l, oor) ==
    LET pu   == parseUnit(Suffix(s, i))
        unit == pu[1]
        R    == FractionBits(r, l, unit, oor)
        sum  == ToInt64(MulUnit(ToInt64(m), unit) + ToInt64(R))
    IN  IF ~pu[2] THEN Invalid
        ELSE IF neg
        THEN IF m > QuoUnit(Pow(2, IntBits - 1), unit) THEN Invalid
             ELSE [val |-> ToInt64(-1 * sum), ok |-> TRUE]
        ELSE IF m > QuoUnit(MaxSize, unit) THEN Invalid
        ELSE IF sum = minSize THEN [val |-> MaxSize, ok |-> TRUE]
        ELSE [val |-> sum, ok |-> TRUE]

\* ParseSize at the first character of the integer part that is neither a
\* digit nor '.'.
ParseInteger(s, i, neg, m) ==
    LET pu   == parseUnit(Suffix(s, i))
        unit == pu[1]
    IN  IF i = 0 THEN Invalid
        ELSE IF ~pu[2] THEN Invalid
        ELSE IF neg
        THEN IF m > QuoUnit(Pow(2, IntBits - 1), unit) THEN Invalid
             ELSE [val |-> ToInt64(ToInt64(-1 * ToInt64(m)) * (IF m = 0 THEN 0 ELSE Scale(unit))),
                   ok |-> TRUE]
        ELSE IF m > QuoUnit(MaxSize, unit) THEN Invalid
        ELSE [val |-> MulUnit(ToInt64(m), unit), ok |-> TRUE]

\* The loop of ParseSize over s (the sign removed) from index i, counted from 0.
RECURSIVE ParseLoop(_, _, _, _, _, _, _, _)
ParseLoop(s, i, neg, dot, m, r, l, oor) ==
    IF i >= Len(s) THEN Invalid
    ELSE LET c == s[i + 1]
         IN  IF dot
             THEN IF IsDigit(c)
                  THEN ParseLoop(s, i + 1, neg, dot, m,
                                 ToUint64(r * 10 + DigitValue(c)), ToUint64(l * 10), oor)
                  ELSE ParseFraction(s, i, neg, m, r, l, oor)
             ELSE IF IsDigit(c)
                  THEN ParseLoop(s, i + 1, neg, dot,
                                 ToUint64(m * 10 + DigitValue(c)), r, l, oor)
                  ELSE IF c = "."
                  THEN ParseLoop(s, i + 1, neg, TRUE, m, r, l, oor)
                  ELSE ParseInteger(s, i, neg, m)

ParseSize(s, oor) ==
    IF s = << >> THEN Invalid
    ELSE IF s[1] = "+" \/ s[1] = "-"
    THEN ParseLoop(Suffix(s, 1), 0, s[1] = "-", FALSE, 0, 0, 1, oor)
    ELSE ParseLoop(s, 0, FALSE, FALSE, 0, 0, 1, oor)

\* strings.HasSuffix(s, suffix)
HasSuffix(s, suffix) ==
    Len(s) >= Len(suffix) /\ SubSeq(s, Len(s) - Len(suffix) + 1, Len(s)) = suffix

\* Size.PerSecond: the size as a Bandwidth, the same number of bits.
PerSecond(s) == s

\* errors.New("mem: invalid bandwidth '" + orig + "'")
InvalidBandwidth(orig) ==
    [val |-> 0, ok |-> FALSE, err |-> <<"mem: invalid bandwidth", orig>>]

\* ParseBandwidth that cuts the last two characters without looking at them.
ParseBandwidthAnySuffix(s, oor) ==
    IF Len(s) < 2 THEN InvalidBandwidth(s)
    ELSE LET sz == ParseSize(SubSeq(s, 1, Len(s) - 2), oor)
         IN  IF ~sz.ok THEN InvalidBandwidth(s)
             ELSE [val |-> PerSecond(sz.val), ok |-> TRUE, err |-> << >>]

ParseBandwidth(s, oor) ==
    IF ~HasSuffix(s, <<"/", "s">>) THEN InvalidBandwidth(s)
    ELSE LET sz == ParseSize(SubSeq(s, 1, Len(s) - 2), oor)
         IN  IF ~sz.ok THEN InvalidBandwidth(s)
             ELSE [val |-> PerSecond(sz.val), ok |-> TRUE, err |-> << >>]

\* fmtSize that leaves the sign to strconv.AppendInt, which prints none for 0.
fmtSizeNoSign(x, base, prec, unit) ==
    LET q == Quo(x, Scale(base))
        r == Rem(x, Scale(base))
    IN  CASE r = 0 /\ prec <= 0 -> AppendInt(q) \o unit
          [] r = 0              -> AppendInt(q) \o <<".">> \o Zeros(prec) \o unit
          [] OTHER ->
               LET r1   == IF r < 0 THEN ToInt64(r * (-1)) ELSE r
                   rbuf == AppendFloat(FloatQuo(Float64(r1), Float64(Scale(base))), prec)
               IN  AppendInt(q) \o Suffix(rbuf, 1) \o unit

\* fmtSize adding the minus sign whenever v < 0.
fmtSizeAlwaysSign(x, base, prec, unit) ==
    LET q == Quo(x, Scale(base))
        r == Rem(x, Scale(base))
    IN  CASE r = 0 /\ prec <= 0 -> AppendInt(q) \o unit
          [] r = 0              -> AppendInt(q) \o <<".">> \o Zeros(prec) \o unit
          [] OTHER ->
               LET r1   == IF r < 0 THEN ToInt64(r * (-1)) ELSE r
                   rbuf == AppendFloat(FloatQuo(Float64(r1), Float64(Scale(base))), prec)
               IN  (IF x < 0 THEN <<"-">> ELSE << >>)
                       \o AppendInt(q) \o Suffix(rbuf, 1) \o unit

fmtSize(x, base, prec, unit) ==
    LET q == Quo(x, Scale(base))
        r == Rem(x, Scale(base))
    IN  CASE r = 0 /\ prec <= 0 -> AppendInt(q) \o unit
          [] r = 0              -> AppendInt(q) \o <<".">> \o Zeros(prec) \o unit
          [] OTHER ->
               LET r1   == IF r < 0 THEN ToInt64(r * (-1)) ELSE r
                   rbuf == AppendFloat(FloatQuo(Float64(r1), Float64(Scale(base))), prec)
               IN  (IF x < 0 /\ q = 0 THEN <<"-">> ELSE << >>)
                       \o AppendInt(q) \o Suffix(rbuf, 1) \o unit

\* The valid format selectors.
Formats == {"d", "D", "b", "B", "i", "I"}

\* The unit strings of a format, largest unit first.
UnitNames(fmt) ==
    CASE fmt = "D" -> << <<"P", "B">>, <<"T", "B">>, <<"G", "B">>, <<"M", "B">>,
                         <<"K", "B">>, <<"B">> >>
      [] fmt = "d" -> << <<"p", "b">>, <<"t", "b">>, <<"g", "b">>, <<"m", "b">>,
                         <<"k", "b">>, <<"b">> >>
      [] fmt = "B" -> << <<"P", "i", "B">>, <<"T", "i", "B">>, <<"G", "i", "B">>,
                         <<"M", "i", "B">>, <<"K", "i", "B">>, <<"B">> >>
      [] fmt = "b" -> << <<"p", "i", "b">>, <<"t", "i", "b">>, <<"g", "i", "b">>,
                         <<"m", "i", "b">>, <<"k", "i", "b">>, <<"b">> >>
      [] fmt = "I" -> << <<"T", "b", "i", "t">>, <<"G", "b", "i", "t">>,
                         <<"M", "b", "i", "t">>, <<"K", "b", "i", "t">>,
                         <<"B", "i", "t">> >>
      [] fmt = "i" -> << <<"t", "b", "i", "t">>, <<"g", "b", "i", "t">>,
                         <<"m", "b", "i", "t">>, <<"k", "b", "i", "t">>,
                         <<"b", "i", "t">> >>

\* The units a format's switch compares s with, largest first, then its base unit.
UnitLadder(fmt) ==
    CASE fmt \in {"d", "D"} -> <<PB, TB, GB, MB, KB, Byte>>
      [] fmt \in {"b", "B"} -> <<PiB, TiB, GiB, MiB, KiB, Byte>>
      [] fmt \in {"i", "I"} -> <<TBit, GBit, MBit, KBit, Bit>>

\* The index of the case FormatSize's switch takes for s # 0: the first unit
\* with s >= unit || s <= -unit, or the default (the base unit).
RECURSIVE SwitchCase(_, _, _)
SwitchCase(s, ladder, i) ==
    IF i = Len(ladder) \/ AtLeast(s, ladder[i]) THEN i
    ELSE SwitchCase(s, ladder, i + 1)

\* FormatSize without the path for the zero value.
FormatSizeNoZeroPath(s, fmt, prec) ==
    IF fmt \notin Formats THEN <<"%", fmt>>
    ELSE LET ladder == UnitLadder(fmt)
             i      == SwitchCase(s, ladder, 1)
         IN  IF fmt \in {"i", "I"} /\ i = Len(ladder)
             THEN AppendInt(s) \o UnitNames(fmt)[i]
             ELSE fmtSize(s, ladder[i], prec, UnitNames(fmt)[i])

FormatSize(s, fmt, prec) ==
    IF s = 0
    THEN CASE fmt \in {"d", "b"} -> <<"0", "b">>
           [] fmt \in {"D", "B"} -> <<"0", "B">>
           [] fmt = "i"          -> <<"0", "b", "i", "t">>
           [] fmt = "I"          -> <<"0", "B", "i", "t">>
           [] OTHER              -> <<"%", fmt>>
    ELSE IF fmt \notin Formats THEN <<"%", fmt>>
    ELSE LET ladder == UnitLadder(fmt)
             i      == SwitchCase(s, ladder, 1)
         IN  IF fmt \in {"i", "I"} /\ i = Len(ladder)
             THEN AppendInt(s) \o UnitNames(fmt)[i]
             ELSE fmtSize(s, ladder[i], prec, UnitNames(fmt)[i])

(***************************************************************************)
(* progress.go: the ProgressReader.  The reader is the record of its       *)
(* fields (Update is TRUE when the callback is non-nil); a time is a       *)
(* number >= 1 and 0 is the zero time.Time.                                *)
(***************************************************************************)

nil == "nil"

\* The errors R.Read may return.
Errors == {"EOF", "ErrUnexpectedEOF"}

\* The byte counts R.Read may return for the buffers passed.
Chunks == 0 .. 2

\* Values of UpdateEvery.
Durations == {-1, 0, 2}

\* Values of UpdateAfter.
Thresholds == {-1, 0, 2}

\* Number of reads of R in a run.
MaxReads == 4

\* Last time of a run.
MaxTime == 4

\* func (r *ProgressReader) Progress() Progress
Progress(r) == [N |-> r.n, Total |-> r.total, Err |-> r.err]

\* if r.err != nil { return 0, r.err }
NeverSticky(r) == FALSE

Sticky(r) == r.err # nil

\* r.n += Size(n); r.total += Size(n); if err != nil { r.err = err }
Account(r, k, e) ==
    [r EXCEPT !.n = ToInt64(@ + k),
              !.total = ToInt64(@ + k),
              !.err = IF e # nil THEN e ELSE @]

\* The switch of Read without "|| err != nil" in its first case.
TriggerNoFinal(r, e, t) ==
    IF ~r.Update THEN "none"
    ELSE IF r.UpdateEvery <= 0 /\ r.UpdateAfter <= 0 THEN "always"
    ELSE IF r.UpdateAfter > 0 /\ r.n >= r.UpdateAfter THEN "after"
    ELSE IF r.UpdateEvery > 0 /\ r.lastUpdate = 0 THEN "first"
    ELSE IF r.UpdateEvery > 0 /\ t - r.lastUpdate >= r.UpdateEvery THEN "every"
    ELSE "none"

\* The switch of Read with only "err != nil" in its first case.
TriggerNoAlways(r, e, t) ==
    IF ~r.Update THEN "none"
    ELSE IF e # nil THEN "always"
    ELSE IF r.UpdateAfter > 0 /\ r.n >= r.UpdateAfter THEN "after"
    ELSE IF r.UpdateEvery > 0 /\ r.lastUpdate = 0 THEN "first"
    ELSE IF r.UpdateEvery > 0 /\ t - r.lastUpdate >= r.UpdateEvery THEN "every"
    ELSE "none"

\* The case of the switch taken by a read that returned e at time t, r being
\* the reader after the counters were advanced: "none" when Update is nil,
\* when no case matches or when the period has not elapsed.
Trigger(r, e, t) ==
    IF ~r.Update THEN "none"
    ELSE IF (r.UpdateEvery <= 0 /\ r.UpdateAfter <= 0) \/ e # nil THEN "always"
    ELSE IF r.UpdateAfter > 0 /\ r.n >= r.UpdateAfter THEN "after"
    ELSE IF r.UpdateEvery > 0 /\ r.lastUpdate = 0 THEN "first"
    ELSE IF r.UpdateEvery > 0 /\ t - r.lastUpdate >= r.UpdateEvery THEN "every"
    ELSE "none"

\* The assignments of a case without r.n = 0.
ResetKeepN(r, c, t) ==
    IF c \in {"first", "every"} THEN [r EXCEPT !.lastUpdate = t] ELSE r

\* The assignments that follow the Update call of case c: r.n = 0, and
\* r.lastUpdate = now in the two cases of the period.
Reset(r, c, t) ==
    IF c = "none" THEN r
    ELSE IF c \in {"first", "every"} THEN [r EXCEPT !.n = 0, !.lastUpdate = t]
    ELSE [r EXCEPT !.n = 0]

\* The state of the variables of the reader in a run that has none.
NoProgress ==
    /\ reader = [Update |-> FALSE, UpdateEvery |-> 0, UpdateAfter |-> 0,
                 n |-> 0, total |-> 0, lastUpdate |-> 0, err |-> nil]
    /\ clock = 1
    /\ reads = << >>
    /\ calls = << >>
    /\ ret = [n |-> 0, err |-> nil]

\* &ProgressReader{R: r, Update: update, UpdateEvery: d, UpdateAfter: a}
InitProgress ==
    /\ pc = "reading"
    /\ reader \in [Update : BOOLEAN, UpdateEvery : Durations,
                   UpdateAfter : Thresholds, n : {0}, total : {0},
                   lastUpdate : {0}, err : {nil}]
    /\ clock = 1
    /\ reads = << >>
    /\ calls = << >>
    /\ ret = [n |-> 0, err |-> nil]
    /\ fn = "none"
    /\ value = 0
    /\ multiple = 1
    /\ res = 0
    /\ rem = 0
    /\ size = 0
    /\ format = "d"
    /\ precision = -1
    /\ str = << >>
    /\ parsed = Invalid

\* func (r *ProgressReader) Read(p []byte) (int, error), R.Read returning
\* (k, e) when it is reached.
Read ==
    /\ pc = "reading"
    /\ IF Sticky(reader)
       THEN /\ ret' = [n |-> 0, err |-> reader.err]
            /\ UNCHANGED <<reader, reads, calls>>
       ELSE /\ Len(reads) < MaxReads
            /\ \E k \in Chunks, e \in Errors \cup {nil} :
                 LET counted == Account(reader, k, e)
                     c == Trigger(counted, e, clock)
                 IN  /\ reads' = Append(reads, [n |-> k, err |-> e])
                     /\ calls' = IF c = "none" THEN calls
                                 ELSE Append(calls,
                                        [N |-> Progress(counted).N,
                                         Total |-> Progress(counted).Total,
                                         Err |-> Progress(counted).Err,
                                         at |-> clock,
                                         read |-> Len(reads) + 1])
                     /\ reader' = Reset(counted, c, clock)
                     /\ ret' = [n |-> k, err |-> e]
    /\ UNCHANGED <<pc, fn, clock, arithVars, formatVars>>

\* Time passes between two calls.
Tick ==
    /\ pc = "reading"
    /\ clock < MaxTime
    /\ clock' = clock + 1
    /\ UNCHANGED <<pc, fn, reader, reads, calls, ret, arithVars, formatVars>>

NextProgress == Read \/ Tick

SpecProgress == InitProgress /\ [][NextProgress]_vars

(***************************************************************************)
(* The arithmetic operations as steps: the arguments (value, multiple) are *)
(* drawn, one operation is applied to them and its result recorded.        *)
(***************************************************************************)

Around(c) == {x \in (c - Near) .. (c + Near) : x \in Int64}

ArithValues ==
    Around(0) \cup Around(MinInt64) \cup Around(MaxInt64)
        \cup Around(Quo(MaxInt64, 8)) \cup Around(Quo(MinInt64, 8))
        \cup Around(Quo(MaxInt64, 2)) \cup Around(Quo(MinInt64, 2))
        \cup {-1500, -1001, -1000, -999, 1001, 1499, 1500, 26, -1111, 1111}

ArithMods ==
    ((-3) .. Near) \cup Around(MaxInt64) \cup Around(Quo(MaxInt64, 2))
        \cup {MinInt64, 50, 100, 1000, 1111}

InitArith ==
    /\ NoProgress
    /\ pc = "in"
    /\ fn = "none"
    /\ value \in ArithValues
    /\ multiple \in ArithMods
    /\ res = 0
    /\ rem = 0
    /\ size = 0
    /\ format = "d"
    /\ precision = -1
    /\ str = << >>
    /\ parsed = Invalid

Abs ==
    /\ pc = "in"
    /\ pc' = "out"
    /\ fn' = "abs"
    /\ res' = abs(value)
    /\ UNCHANGED <<value, multiple, rem, formatVars, progressVars>>

Truncate ==
    /\ pc = "in"
    /\ pc' = "out"
    /\ fn' = "truncate"
    /\ res' = truncate(value, multiple)
    /\ UNCHANGED <<value, multiple, rem, formatVars, progressVars>>

Round ==
    /\ pc = "in"
    /\ pc' = "out"
    /\ fn' = "round"
    /\ res' = round(value, multiple)
    /\ UNCHANGED <<value, multiple, rem, formatVars, progressVars>>

Bytes ==
    /\ pc = "in"
    /\ pc' = "out"
    /\ fn' = "Bytes"
    /\ res' = BitSizeBytes(value)[1]
    /\ rem' = BitSizeBytes(value)[2]
    /\ UNCHANGED <<value, multiple, formatVars, progressVars>>

Bits ==
    /\ pc = "in"
    /\ pc' = "out"
    /\ fn' = "Bits"
    /\ res' = SizeBits(value)
    /\ UNCHANGED <<value, multiple, rem, formatVars, progressVars>>

NextArith == Abs \/ Truncate \/ Round \/ Bytes \/ Bits

SpecArith == InitArith /\ [][NextArith]_vars

(***************************************************************************)
(* Formatting and parsing as steps: either a size is drawn, formatted and  *)
(* the string parsed back, or a string is given and parsed.                *)
(***************************************************************************)

FormatSizes ==
    Around(0) \cup Around(MinInt64) \cup Around(MaxInt64)
        \cup Around(Scale(KBit)) \cup Around(-Scale(KBit))
        \cup Around(Scale(KB)) \cup Around(-Scale(KB))
        \cup Around(Scale(KiB)) \cup Around(-Scale(KiB))
        \cup {s \in Int64 : s % 331 = 0}

Precisions == {-1, 0, 1, 2, 3}

\* The parts the given strings are put together from: a sign, the digits of
\* the integer part, a fraction and a unit, each possibly missing or
\* malformed (a second sign, a blank, a second point, a trailing character).
Signs ==
    { << >>, <<"+">>, <<"-">>,
      <<"-", "-">>, <<"+", "-">>, <<"+", "+">>, <<" ">>, <<" ", "-">> }

IntegerParts ==
    {<< >>} \cup {NatDigits(n) : n \in {0, 1, 3, 4, 32, 33, 4095, 4096}}
        \cup {NatDigits(n) : n \in {MaxInt64, MaxInt64 + 1, MaxInt64 + 2,
                                    WordSize, WordSize + 1}}

FractionParts ==
    { << >>, <<".">>, <<".", "0">>, <<".", "5">>, <<".", "1", "2", "5">>,
      <<".", "9", "9", "9", "9">>, <<".", "9", "9", "9", "9", "9">>,
      <<".", "9">>, <<".", "2", ".", "5">>, <<".", ".", "5">> }

UnitParts ==
    { << >>, <<"b">>, <<"B">>, <<"b", "i", "t">>, <<"k", "b">>,
      <<"K", "i", "B">>, <<"k", "b", "i", "t">>, <<"K", "b">>,
      <<"B", " ">>, <<" ", "B">>, <<"k", "b", "x">>, <<"b", "i", "t", "s">> }

ParseInputs ==
    {sg \o ip \o fp \o up :
        sg \in Signs, ip \in IntegerParts, fp \in FractionParts, up \in UnitParts}

InitFormatSize ==
    /\ pc = "start"
    /\ size \in FormatSizes
    /\ format \in Formats
    /\ precision \in Precisions
    /\ str = << >>

InitParseSize ==
    /\ pc = "given"
    /\ size = 0
    /\ format = "d"
    /\ precision = -1
    /\ str \in ParseInputs

\* Size strings, well-formed and not, each with and without an ending.
BandwidthInputs ==
    {sg \o ip \o fp \o up \o e :
        sg \in {<< >>, <<"-">>},
        ip \in {<< >>} \cup {NatDigits(n) : n \in {1, 4, MaxInt64, WordSize + 1}},
        fp \in {<< >>, <<".", "5">>},
        up \in {<< >>, <<"b">>, <<"k", "b", "i", "t">>, <<"K", "i", "B">>, <<"K", "b">>},
        e  \in {<< >>, <<"/", "s">>, <<"/">>, <<"s">>, <<"/", "S">>,
                <<"/", "s", "/", "s">>, <<"/", "s", " ">>, <<"p", "s">>}}

InitParseBandwidth ==
    /\ pc = "givenBandwidth"
    /\ size = 0
    /\ format = "d"
    /\ precision = -1
    /\ str \in BandwidthInputs

InitFormat ==
    /\ NoProgress
    /\ InitFormatSize \/ InitParseSize \/ InitParseBandwidth
    /\ parsed = Invalid
    /\ fn = "none"
    /\ value = 0
    /\ multiple = 0
    /\ res = 0
    /\ rem = 0

\* v := FormatSize(s, f, prec)
Format ==
    /\ pc = "start"
    /\ pc' = "formatted"
    /\ fn' = "FormatSize"
    /\ str' = FormatSize(size, format, precision)
    /\ UNCHANGED <<size, format, precision, parsed, arithVars, progressVars>>

\* w, err := ParseSize(v), of the string just formatted
ParseBack ==
    /\ pc = "formatted"
    /\ pc' = "parsedBack"
    /\ fn' = "ParseSize"
    /\ \E oor \in OutOfRange : parsed' = ParseSize(str, oor)
    /\ UNCHANGED <<size, format, precision, str, arithVars, progressVars>>

\* size, err := ParseSize(s), of a given string
Parse ==
    /\ pc = "given"
    /\ pc' = "parsed"
    /\ fn' = "ParseSize"
    /\ \E oor \in OutOfRange : parsed' = ParseSize(str, oor)
    /\ UNCHANGED <<size, format, precision, str, arithVars, progressVars>>

\* b, err := ParseBandwidth(s), of a given string
ParseGivenBandwidth ==
    /\ pc = "givenBandwidth"
    /\ pc' = "bandwidthParsed"
    /\ fn' = "ParseBandwidth"
    /\ \E oor \in OutOfRange : parsed' = ParseBandwidth(str, oor)
    /\ UNCHANGED <<size, format, precision, str, arithVars, progressVars>>

NextFormat == Format \/ ParseBack \/ Parse \/ ParseGivenBandwidth

SpecFormat == InitFormat /\ [][NextFormat]_vars

(***************************************************************************)
(* size.go (Size counted in bits) and doc.go: the accessors of Size and    *)
(* the methods of Bandwidth.  A float64 result is kept as its sign and its *)
(* magnitude.                                                              *)
(***************************************************************************)

\* x + y on float64, for finite x, y >= 0: when one term is below a quarter
\* of the other's last place the sum rounds to the other.
FloatAdd(x, y) ==
    CASE x.m = 0                      -> y
      [] y.m = 0                      -> x
      [] x.e - y.e > FloatBits + 2    -> x
      [] y.e - x.e > FloatBits + 2    -> y
      [] OTHER ->
           LET e == IF x.e < y.e THEN x.e ELSE y.e
           IN  RoundRatio(x.m * Pow(2, x.e - e) + y.m * Pow(2, y.e - e), 1, e)

\* The accessors and the unit each divides by.
AccessorUnits ==
    [Kilobits |-> KBit, Megabits |-> MBit, Gigabits |-> GBit, Terabits |-> TBit,
     Bytes |-> Byte, Kilobytes |-> KB, Megabytes |-> MB, Gigabytes |-> GB,
     Terabytes |-> TB, Kibibytes |-> KiB, Mebibytes |-> MiB, Gibibytes |-> GiB,
     Tebibytes |-> TiB]

Accessors == DOMAIN AccessorUnits

\* k := s / unit; r := s % unit; return float64(k) + float64(r)/divisor
\* (k and r have the sign of s, so the result has it too).
SizeAccessor(s, name) ==
    LET u == AccessorUnits[name]
        a == IF s < 0 THEN -s ELSE s
        k == QuoUnit(a, u)
        r == IF k = 0 THEN a ELSE a - k * Scale(u)
    IN  [neg |-> s < 0,
         mag |-> FloatAdd(Float64(k), FloatQuo(Float64(r), FloatOfUnit(u)))]

SizeAbs(s) == abs(s)

SizeTruncate(s, m) == truncate(s, m)

SizeRound(s, m) == round(s, m)

\* return Size(b).X(), and for Gigabytes return Size(b).Abs().Gigabytes()
BandwidthAccessor(b, name) ==
    IF name = "Gigabytes" THEN SizeAccessor(SizeAbs(b), name)
    ELSE SizeAccessor(b, name)

BandwidthTruncate(b, m) == SizeTruncate(b, m)

BandwidthRound(b, m) == SizeRound(b, m)

BandwidthAbs(b) == SizeAbs(b)

BandwidthMods == {-1, 0, 1, 3, 8, 1000, MaxInt64}

InitBandwidth ==
    /\ NoProgress
    /\ pc = "in"
    /\ fn = "none"
    /\ value \in ArithValues
    /\ multiple \in BandwidthMods
    /\ res = 0
    /\ rem = 0
    /\ size = 0
    /\ format = "d"
    /\ precision = -1
    /\ str = << >>
    /\ parsed = Invalid

\* b.Kilobits(), ..., b.Tebibytes()
CallAccessor ==
    /\ pc = "in"
    /\ pc' = "out"
    /\ \E name \in Accessors :
          /\ fn' = name
          /\ res' = BandwidthAccessor(value, name)
    /\ UNCHANGED <<value, multiple, rem, formatVars, progressVars>>

\* b.Truncate(m)
CallTruncate ==
    /\ pc = "in"
    /\ pc' = "out"
    /\ fn' = "Truncate"
    /\ res' = BandwidthTruncate(value, multiple)
    /\ UNCHANGED <<value, multiple, rem, formatVars, progressVars>>

\* b.Round(m)
CallRound ==
    /\ pc = "in"
    /\ pc' = "out"
    /\ fn' = "Round"
    /\ res' = BandwidthRound(value, multiple)
    /\ UNCHANGED <<value, multiple, rem, formatVars, progressVars>>

\* b.Abs()
CallAbs ==
    /\ pc = "in"
    /\ pc' = "out"
    /\ fn' = "Abs"
    /\ res' = BandwidthAbs(value)
    /\ UNCHANGED <<value, multiple, rem, formatVars, progressVars>>

NextBandwidth == CallAccessor \/ CallTruncate \/ CallRound \/ CallAbs

SpecBandwidth == InitBandwidth /\ [][NextBandwidth]_vars

(***************************************************************************)
(* parseUnit as a step: a candidate spelling is drawn and looked up.       *)
(***************************************************************************)

\* Every spelling of s in lower- and upper-case letters.
RECURSIVE Variants(_)
Variants(s) ==
    IF s = << >> THEN {<< >>}
    ELSE {<<c>> \o t : c \in {s[1], Upper(s[1])}, t \in Variants(Tail(s))}

\* The unit names in lower case, with the petabit the package does not have.
LowerNames ==
    {<<"b">>, <<"b", "i", "t">>}
        \cup {<<p>> \o u : p \in {"k", "m", "g", "t", "p"},
                            u \in {<<"b">>, <<"i", "b">>, <<"b", "i", "t">>}}

UnitStrings ==
    UNION {Variants(n) : n \in LowerNames}
        \cup { << >>, <<"x">>, <<"b", "i", "t", "s">>, <<"b", "y", "t", "e">>,
               <<" ", "b">>, <<"b", " ">>, <<"k">>, <<"k", "i">>, <<"i", "b">>,
               <<"e", "b">>, <<"b", "/", "s">> }

InitUnit ==
    /\ NoProgress
    /\ pc = "unit"
    /\ str \in UnitStrings
    /\ parsed = Invalid
    /\ size = 0
    /\ format = "d"
    /\ precision = -1
    /\ fn = "none"
    /\ value = 0
    /\ multiple = 0
    /\ res = 0
    /\ rem = 0

\* unit, ok := parseUnit(s[i:])
ParseUnit ==
    /\ pc = "unit"
    /\ pc' = "unitParsed"
    /\ fn' = "parseUnit"
    /\ parsed' = [val |-> parseUnit(str)[1], ok |-> parseUnit(str)[2]]
    /\ UNCHANGED <<size, format, precision, str, arithVars, progressVars>>

NextUnit == ParseUnit

SpecUnit == InitUnit /\ [][NextUnit]_vars

(***************************************************************************)
(* Properties of the arithmetic operations.                                *)
(***************************************************************************)

\* |x| as an unbounded integer.
Magnitude(x) == IF x < 0 THEN -x ELSE x

\* The multiple of y (y > 0) nearest to x as an unbounded integer, a value
\* halfway between two multiples going to the one farther from zero.
NearestMultiple(x, y) ==
    LET a == Magnitude(x)
        q == a \div y
        r == a % y
        n == IF 2 * r >= y THEN (q + 1) * y ELSE q * y
    IN  IF x < 0 THEN -n ELSE n

\* C2: for every v and every m > 0 for which the result is representable,
\* round(v, m) is the multiple of m nearest to v, and when v is halfway
\* between two multiples the one farther from zero.
C2_RoundNearest ==
    (pc = "out" /\ fn = "round" /\ multiple > 0
        /\ NearestMultiple(value, multiple) \in Int64)
        => res = NearestMultiple(value, multiple)

\* C3: for v >= 0 and m > 0, if the nearest multiple of m (ties away from
\* zero) is greater than the maximum word, round(v, m) is the maximum word.
C3_RoundSaturatesMax ==
    (pc = "out" /\ fn = "round" /\ value >= 0 /\ multiple > 0
        /\ NearestMultiple(value, multiple) > MaxInt64)
        => res = MaxInt64

\* C3 witness: round(MaxInt64, 2), whose nearest multiple is beyond the
\* maximum, has returned the maximum.
C3_Witness ==
    /\ pc = "out" /\ fn = "round" /\ value = MaxInt64 /\ multiple = 2
    /\ NearestMultiple(value, multiple) > MaxInt64
    /\ res = MaxInt64

\* C4: for v < 0 and m > 0, if the rounded result would be below the
\* representable range, round(v, m) is one more than the minimum word.
C4_RoundSaturatesMinPlusOne ==
    (pc = "out" /\ fn = "round" /\ value < 0 /\ multiple > 0
        /\ NearestMultiple(value, multiple) < MinInt64)
        => res = MinInt64 + 1

\* C6: abs is total and saturating: abs(v) >= 0; abs(v) = v for v >= 0 and
\* -v for MinInt64 < v < 0; abs(MinInt64) = MaxInt64; abs(abs(v)) = abs(v).
C6_AbsSaturating ==
    (pc = "out" /\ fn = "abs")
        => /\ res >= 0
           /\ (value >= 0 => res = value)
           /\ (MinInt64 < value /\ value < 0 => res = -value)
           /\ (value = MinInt64 => res = MaxInt64)
           /\ abs(res) = res

\* C6 witness: abs has been applied to the minimum word and gave the maximum.
C6_Witness == pc = "out" /\ fn = "abs" /\ value = MinInt64 /\ res = MaxInt64

\* C7: for every v and every m <= 0, truncate(v, m) = v and round(v, m) = v.
C7_NonPositiveModulusNoOp ==
    (pc = "out" /\ fn \in {"truncate", "round"} /\ multiple <= 0) => res = value

\* C7 witness: truncate has been applied with a negative modulus whose
\* magnitude does not divide v, and returned v.
C7_Witness ==
    /\ pc = "out" /\ fn = "truncate" /\ multiple < 0 /\ multiple > MinInt64
    /\ Rem(value, -multiple) # 0
    /\ res = value

\* C8: for every v and every m > 0, truncate(v, m) is a multiple of m, has
\* the sign of v or is zero, |truncate(v, m)| <= |v|, |v - truncate(v, m)| < m,
\* and is v - v % m without overflow.
C8_TruncateTowardZero ==
    (pc = "out" /\ fn = "truncate" /\ multiple > 0)
        => /\ Rem(res, multiple) = 0
           /\ (res = 0 \/ (res > 0) = (value > 0))
           /\ Magnitude(res) <= Magnitude(value)
           /\ Magnitude(value - res) < multiple
           /\ res = value - Rem(value, multiple)

\* C8 witness: truncate(-1111, 10) has moved toward zero, to -1110.
C8_Witness ==
    /\ pc = "out" /\ fn = "truncate" /\ value = -1111 /\ multiple = 10
    /\ res = -1110

\* C9: for every BitSize b, with (bytes, bits) = b.Bytes():
\* b = bytes.Bits() + bits without overflow, and -7 <= bits <= 7.
C9_BytesBitsIdentity ==
    (pc = "out" /\ fn = "Bytes")
        => /\ value = SizeBits(res) + rem
           /\ -7 <= rem /\ rem <= 7

\* C9 witness: Bytes has been applied to the maximum word, leaving 7 bits.
C9_Witness ==
    /\ pc = "out" /\ fn = "Bytes" /\ value = MaxInt64
    /\ rem = 7 /\ res = Quo(MaxInt64, 8)

\* C10: Size.Bits is 8*s when MinInt64/8 <= s <= MaxInt64/8, MaxInt64 above,
\* MinInt64 below; it is non-decreasing in s and its result has the sign of s.
C10_BitsSaturates ==
    (pc = "out" /\ fn = "Bits")
        => /\ (Quo(MinInt64, 8) <= value /\ value <= Quo(MaxInt64, 8)
                  => res = 8 * value)
           /\ (value > Quo(MaxInt64, 8) => res = MaxInt64)
           /\ (value < Quo(MinInt64, 8) => res = MinInt64)
           /\ (value > 0 => res > 0) /\ (value < 0 => res < 0)
           /\ (value = 0 => res = 0)
           /\ \A u \in ArithValues : u <= value => SizeBits(u) <= res

\* C10 witness: Bits has been applied to the first size above MaxInt64/8,
\* whose product by 8 wraps, and returned the maximum.
C10_Witness ==
    /\ pc = "out" /\ fn = "Bits" /\ value = Quo(MaxInt64, 8) + 1
    /\ res = MaxInt64

\* C27: for every m > 0 and every v that is a multiple of m, positive or
\* negative, round(v, m) = v; and round(round(v, m), m) = round(v, m) for
\* every v whose rounding does not saturate.
C27_RoundFixesMultiples ==
    (pc = "out" /\ fn = "round" /\ multiple > 0)
        => /\ Rem(value, multiple) = 0 => res = value
           /\ NearestMultiple(value, multiple) \in Int64
                => round(res, multiple) = res

(***************************************************************************)
(* Properties of the formatter and the parser.                             *)
(***************************************************************************)

\* C1: for every Size s and every valid format selector f,
\* ParseSize(FormatSize(s, f, -1)) succeeds and returns exactly s.
C1_RoundTrip ==
    (pc = "parsedBack" /\ precision = -1) => (parsed.ok /\ parsed.val = size)

\* C5 as claimed: ParseSize never returns the minimum word.
C5_NeverMinSize ==
    (pc \in {"parsed", "parsedBack"} /\ parsed.ok) => parsed.val # minSize

\* C5 as amended: ParseSize returns the minimum word only for an input with
\* a leading '-'; without one, a result landing on the minimum is returned
\* as the maximum.
C5_MinSizeOnlyNegative ==
    (pc \in {"parsed", "parsedBack"} /\ parsed.ok /\ parsed.val = minSize)
        => str[1] = "-"

\* C5 witness: "3.9999KiB" has been parsed; its fraction gives a whole KiB,
\* the sum 3 KiB + 1 KiB lands on the minimum word, and the maximum is returned.
C5_Witness ==
    /\ pc = "parsed"
    /\ str = <<"3", ".", "9", "9", "9", "9", "K", "i", "B">>
    /\ \A oor \in OutOfRange :
          ToInt64(MulUnit(3, KiB) + FractionBits(9999, 10000, KiB, oor)) = minSize
    /\ parsed = [val |-> MaxSize, ok |-> TRUE]

(***************************************************************************)
(* The parts of an input string, read off the string itself: a sign, the   *)
(* digits before the point, the digits after it and the rest.              *)
(***************************************************************************)

\* The input without its sign.
Unsigned(s) == IF s # << >> /\ s[1] \in {"+", "-"} THEN Suffix(s, 1) ELSE s

\* The number of digits s begins with.
LeadingDigits(s) ==
    CHOOSE k \in 0 .. Len(s) :
        /\ \A i \in 1 .. k : IsDigit(s[i])
        /\ k = Len(s) \/ ~IsDigit(s[k + 1])

\* The number a string of digits denotes, as an unbounded integer.
RECURSIVE DigitsValue(_)
DigitsValue(s) ==
    IF s = << >> THEN 0
    ELSE 10 * DigitsValue(SubSeq(s, 1, Len(s) - 1)) + DigitValue(s[Len(s)])

IntegerDigits(s) == SubSeq(Unsigned(s), 1, LeadingDigits(Unsigned(s)))

AfterInteger(s) == Suffix(Unsigned(s), Len(IntegerDigits(s)))

HasPoint(s) == AfterInteger(s) # << >> /\ AfterInteger(s)[1] = "."

FractionDigits(s) ==
    IF HasPoint(s)
    THEN SubSeq(AfterInteger(s), 2, 1 + LeadingDigits(Suffix(AfterInteger(s), 1)))
    ELSE << >>

UnitSuffix(s) ==
    Suffix(AfterInteger(s), IF HasPoint(s) THEN 1 + Len(FractionDigits(s)) ELSE 0)

\* [sign] digits ['.' digits] unit, each digits a non-empty run.
WellFormed(s) ==
    /\ IntegerDigits(s) # << >>
    /\ HasPoint(s) => FractionDigits(s) # << >>
    /\ \E e \in UnitTable : e[1] = UnitSuffix(s)

\* The unit of a well-formed input.
UnitOf(s) == (CHOOSE e \in UnitTable : e[1] = UnitSuffix(s))[2]

BlankAtEnd(s) == s # << >> /\ (s[1] = " " \/ s[Len(s)] = " ")

TwoSigns(s) == Len(s) >= 2 /\ s[1] \in {"+", "-"} /\ s[2] \in {"+", "-"}

TwoPoints(s) == Cardinality({i \in 1 .. Len(s) : s[i] = "."}) >= 2

\* The rest is a unit spelling followed by more characters, and not a
\* spelling itself.
AfterUnit(s) ==
    /\ \E e \in UnitTable :
          Len(e[1]) < Len(UnitSuffix(s))
              /\ SubSeq(UnitSuffix(s), 1, Len(e[1])) = e[1]
    /\ ~\E e \in UnitTable : e[1] = UnitSuffix(s)

NoUnit(s) == IntegerDigits(s) # << >> /\ UnitSuffix(s) = << >>

\* C11: ParseSize returns an error for every string with a blank at its
\* start or end, two signs, two decimal points, a character after the unit
\* suffix, or digits with no unit suffix.
C11_MalformedRejected ==
    (pc = "parsed"
        /\ (BlankAtEnd(str) \/ TwoSigns(str) \/ TwoPoints(str)
                \/ AfterUnit(str) \/ NoUnit(str)))
        => parsed = Invalid

\* C11 witness: "1.5B ", a size followed by a blank, has been rejected.
C11_Witness ==
    /\ pc = "parsed"
    /\ str = <<"1", ".", "5", "B", " ">>
    /\ BlankAtEnd(str) /\ AfterUnit(str)
    /\ parsed = Invalid

\* C12: ParseSize succeeds only on strings of the grammar
\* [sign] digits ['.' digits] unit with non-empty runs of digits.
C12_OnlyGrammar ==
    (pc = "parsed" /\ parsed.ok) => WellFormed(str)

\* n / d rounded to the nearest integer, a half going up (n >= 0, d > 0).
RoundDiv(n, d) == (2 * n + d) \div (2 * d)

\* The value the digits and the unit of a well-formed input denote, the
\* fraction scaled by the unit rounded to the nearest bit.
Denoted(s) ==
    LET u == Scale(UnitOf(s))
        v == DigitsValue(IntegerDigits(s)) * u
                + RoundDiv(DigitsValue(FractionDigits(s)) * u,
                           Pow(10, Len(FractionDigits(s))))
    IN  IF s[1] = "-" THEN -v ELSE v

\* C13: for a well-formed input whose value is representable, ParseSize
\* returns sign * (m*u + round(r*u / 10^k)).
C13_FractionRounded ==
    (pc = "parsed" /\ WellFormed(str) /\ Denoted(str) \in Int64
        /\ Denoted(str) # minSize)
        => (parsed.ok /\ parsed.val = Denoted(str))

\* C14: when the integer part times the unit exceeds the range (2^63-1 for
\* an input without '-', 2^63 for one with '-'), ParseSize returns an error.
C14_OverflowRejected ==
    (pc = "parsed" /\ WellFormed(str)
        /\ DigitsValue(IntegerDigits(str)) * Scale(UnitOf(str))
              > (IF str[1] = "-" THEN MaxInt64 + 1 ELSE MaxInt64))
        => parsed = Invalid

\* C28: whenever ParseSize succeeds the result is >= 0 for an input without
\* a leading '-' and <= 0 for an input with one: the sum of integer part
\* times unit and scaled fraction never wraps to the opposite sign.
C28_SignPreserved ==
    (pc \in {"parsed", "parsedBack"} /\ parsed.ok)
        => IF str[1] = "-" THEN parsed.val <= 0 ELSE parsed.val >= 0

(***************************************************************************)
(* Properties of the unit table.                                           *)
(***************************************************************************)

\* The prefixes in the order of their power.
Prefixes == <<"k", "m", "g", "t", "p">>

\* The spellings the documentation names: all lower case, or the prefix and
\* the B of byte in upper case; there is no petabit.
AcceptedSpellings ==
    { <<"b">>, <<"B">>, <<"b", "i", "t">>, <<"B", "i", "t">> }
        \cup UNION { { <<Prefixes[k], "b">>, <<Upper(Prefixes[k]), "B">>,
                       <<Prefixes[k], "i", "b">>, <<Upper(Prefixes[k]), "i", "B">> }
                     : k \in 1 .. 5 }
        \cup UNION { { <<Prefixes[k], "b", "i", "t">>,
                       <<Upper(Prefixes[k]), "b", "i", "t">> } : k \in 1 .. 4 }

\* The scale a spelling stands for: 1 bit or 8 bits, times 1000 (1024 with
\* an i after the prefix) once per step of the prefix.
SpellingScale(s) ==
    LET first == IF s[1] \in {"b", "B"} THEN 0
                 ELSE CHOOSE k \in 1 .. 5 : s[1] \in {Prefixes[k], Upper(Prefixes[k])}
        isBit == Len(s) >= 3 /\ SubSeq(s, Len(s) - 1, Len(s)) = <<"i", "t">>
        isBin == first > 0 /\ s[2] = "i"
    IN  [bits  |-> IF isBit THEN 1 ELSE 8,
         step  |-> IF first = 0 THEN 1 ELSE IF isBin THEN 1024 ELSE 1000,
         power |-> first]

ZeroLiteral(f) ==
    CASE f \in {"d", "b"} -> <<"0", "b">>
      [] f \in {"D", "B"} -> <<"0", "B">>
      [] f = "i"          -> <<"0", "b", "i", "t">>
      [] f = "I"          -> <<"0", "B", "i", "t">>

\* C16: for s = 0, every valid format selector and every precision,
\* FormatSize returns the zero literal of the selector.
C16_ZeroLiteral ==
    (pc = "formatted" /\ size = 0) => str = ZeroLiteral(format)

\* C16 witness: the zero size has been formatted with precision 2, and the
\* result has no fraction.
C16_Witness ==
    /\ pc = "formatted" /\ size = 0 /\ precision = 2 /\ format = "D"
    /\ str = <<"0", "B">>

\* C17 as claimed: no size other than zero formats to the zero literal.
C17_OnlyZero ==
    (pc = "formatted" /\ size # 0) => str # ZeroLiteral(format)

\* C17 as amended: a size other than zero differs from the zero literal
\* when the precision is not 0, the format is a bit format, the size is
\* negative or the size is one byte or more; with precision 0 a byte format
\* gives the zero literal for a positive size of half a byte or less.
C17_OnlyZeroOrHalfByte ==
    (pc = "formatted" /\ size # 0)
        => /\ (precision # 0 \/ format \in {"i", "I"} \/ size < 0
                  \/ size >= Scale(Byte))
              => str # ZeroLiteral(format)
           /\ (precision = 0 /\ format \in {"d", "D", "b", "B"}
                  /\ 0 < size /\ 2 * size <= Scale(Byte))
              => str = ZeroLiteral(format)

\* C17 witness: one bit has been formatted in bytes with precision 0 and
\* gave the zero literal.
C17_Witness ==
    /\ pc = "formatted" /\ size = 1 /\ precision = 0 /\ format = "d"
    /\ str = ZeroLiteral(format)

\* C18: for every non-zero size and every valid format selector, the output
\* has no decimal point with precision 0, and a decimal point followed by
\* exactly N digits and the unit suffix with precision N > 0.
C18_PrecisionDigits ==
    (pc = "formatted" /\ size # 0 /\ precision >= 0)
        => IF precision = 0
           THEN \A i \in 1 .. Len(str) : str[i] # "."
           ELSE /\ HasPoint(str)
                /\ Len(FractionDigits(str)) = precision
                /\ \E k \in 1 .. Len(UnitNames(format)) :
                      UnitSuffix(str) = UnitNames(format)[k]

\* The case the selection rule names for s: the first unit of the format's
\* family, largest first, with |s| >= unit, or the base unit.
RuleIndex(s, fmt) ==
    LET ladder == UnitLadder(fmt)
        holds(i) == FitsWord(ladder[i]) /\ Magnitude(s) >= Scale(ladder[i])
    IN  CHOOSE i \in 1 .. Len(ladder) :
            /\ i = Len(ladder) \/ holds(i)
            /\ \A j \in 1 .. (i - 1) : ~holds(j)

Minuses(s) == Cardinality({i \in 1 .. Len(s) : s[i] = "-"})

\* C24: for s < 0, every valid selector and every precision the string
\* FormatSize returns begins with '-' and has no other '-', also when the
\* integer quotient is 0; for s >= 0 it has no '-'.
C24_OneSign ==
    pc = "formatted"
        => IF size < 0
           THEN str[1] = "-" /\ Minuses(str) = 1
           ELSE Minuses(str) = 0

\* -4 bits are "-0.5b".
C24_Witness ==
    /\ pc = "formatted"
    /\ size = -4
    /\ format = "b"
    /\ precision = -1
    /\ str = <<"-", "0", ".", "5", "b">>

\* C29: for a non-zero s, a valid selector and prec = N >= 0 the decimal
\* number FormatSize prints differs from s/unit by at most half a unit of
\* its N-th fractional digit (the carry of a remainder that rounds up to 1
\* goes to the integer part).  With P the digits printed, read as an
\* integer, and D the number of fractional digits printed:
\* 2 * |P * unit - |s| * 10^D| <= unit, D = N when a fraction is printed.
C29_CorrectlyRounded ==
    (pc = "formatted" /\ size # 0 /\ precision >= 0)
        => LET ladder  == UnitLadder(format)
               unit    == Scale(ladder[RuleIndex(size, format)])
               printed == DigitsValue(IntegerDigits(str) \o FractionDigits(str))
               places  == Len(FractionDigits(str))
               exact   == Magnitude(size) * Pow(10, places)
               diff    == printed * unit - exact
           IN  /\ places \in {0, precision}
               /\ 2 * Magnitude(diff) * Pow(10, precision - places) <= unit

(***************************************************************************)
(* Properties of the bandwidth parser.                                     *)
(***************************************************************************)

\* The input without its last two characters.
WithoutRate(s) == SubSeq(s, 1, Len(s) - 2)

EndsWithRate(s) == Len(s) >= 2 /\ s[Len(s) - 1] = "/" /\ s[Len(s)] = "s"

\* C19: ParseBandwidth(x) succeeds exactly when x ends with "/s" and
\* ParseSize succeeds on x without it, and then returns the value ParseSize
\* returns; otherwise it returns 0 and the error "invalid bandwidth" naming x.
C19_BandwidthDelegates ==
    pc = "bandwidthParsed"
        => /\ parsed.ok <=>
                (EndsWithRate(str)
                    /\ \E oor \in OutOfRange : ParseSize(WithoutRate(str), oor).ok)
           /\ parsed.ok =>
                /\ \E oor \in OutOfRange :
                      parsed.val = ParseSize(WithoutRate(str), oor).val
                /\ parsed.err = << >>
           /\ ~parsed.ok =>
                /\ parsed.val = 0
                /\ parsed.err = <<"mem: invalid bandwidth", str>>

\* C19 witness: "-1.5KiB/s" has been parsed as the bandwidth of "-1.5KiB".
C19_Witness ==
    /\ pc = "bandwidthParsed"
    /\ str = <<"-", "1", ".", "5", "K", "i", "B", "/", "s">>
    /\ parsed.ok
    /\ parsed.val = -(Scale(KiB) + Scale(KiB) \div 2)

(***************************************************************************)
(* Properties of Bandwidth.                                                *)
(***************************************************************************)

\* C20: every Bandwidth accessor and operation equals the Size operation of
\* the same name on the same integer, and the sign of an accessor's result
\* is the sign of b.
C20_BandwidthDelegates ==
    pc = "out"
        => /\ fn \in Accessors =>
                (res = SizeAccessor(value, fn) /\ res.neg = (value < 0))
           /\ fn = "Truncate" => res = SizeTruncate(value, multiple)
           /\ fn = "Round" => res = SizeRound(value, multiple)
           /\ fn = "Abs" => res = SizeAbs(value)

(***************************************************************************)
(* Properties of the ProgressReader.                                       *)
(***************************************************************************)

RECURSIVE SumBytes(_, _)
\* The bytes returned by the first k reads of R.
SumBytes(rs, k) == IF k = 0 THEN 0 ELSE SumBytes(rs, k - 1) + rs[k].n

RECURSIVE SumN(_, _)
\* The sum of Progress.N over the first k Update calls.
SumN(cs, k) == IF k = 0 THEN 0 ELSE SumN(cs, k - 1) + cs[k].N

\* C21: with a non-nil Update, the Read in which R first returns a non-nil
\* error calls Update exactly once, with Progress.Err that error, whatever
\* UpdateEvery and UpdateAfter are, and no later Read calls Update again:
\* the last Update call is the only one made during the last read of R, and
\* it carries the error that read returned.
C21_FinalUpdate ==
    (reader.Update /\ reader.err # nil)
        => /\ Len(calls) > 0
           /\ reads[Len(reads)].err = reader.err
           /\ \A i \in 1 .. (Len(reads) - 1) : reads[i].err = nil
           /\ calls[Len(calls)].Err = reads[Len(reads)].err
           /\ calls[Len(calls)].read = Len(reads)
           /\ \A i \in 1 .. (Len(calls) - 1) :
                calls[i].read < Len(reads) /\ calls[i].Err = nil

\* The period and the threshold are both set and neither is met when R
\* returns io.EOF; a further Read call has returned (0, io.EOF).
C21_Witness ==
    /\ reader.Update
    /\ reader.UpdateEvery = 2
    /\ reader.UpdateAfter = 2
    /\ clock = 1
    /\ Len(reads) = 2
    /\ reads[2] = [n |-> 1, err |-> "EOF"]
    /\ Len(calls) = 2
    /\ calls[2].Err = "EOF"
    /\ ret = [n |-> 0, err |-> "EOF"]

\* C22: with a non-nil Update and UpdateEvery <= 0 and UpdateAfter <= 0,
\* every read of R calls Update exactly once: the i-th Update call is made
\* during the i-th read, and there are as many calls as reads.
C22_EveryRead ==
    (reader.Update /\ reader.UpdateEvery <= 0 /\ reader.UpdateAfter <= 0)
        => /\ Len(calls) = Len(reads)
           /\ \A i \in 1 .. Len(calls) : calls[i].read = i

C22_Witness ==
    /\ reader.Update
    /\ reader.UpdateEvery = -1
    /\ reader.UpdateAfter = 0
    /\ Len(reads) = 3
    /\ \A i \in 1 .. 3 : reads[i].err = nil
    /\ Len(calls) = 3

\* C25: an Update call made by a read that returned a nil error is made only
\* if (a) UpdateEvery <= 0 and UpdateAfter <= 0, or (b) UpdateAfter > 0 and
\* at least UpdateAfter bytes were read since the previous Update call, or
\* (c) UpdateEvery > 0 and no Update call was made before or at least
\* UpdateEvery has elapsed since the previous Update call of any kind.
C25_TriggerRule ==
    \A i \in 1 .. Len(calls) :
        calls[i].Err = nil
            => \/ reader.UpdateEvery <= 0 /\ reader.UpdateAfter <= 0
               \/ reader.UpdateAfter > 0 /\ calls[i].N >= reader.UpdateAfter
               \/ /\ reader.UpdateEvery > 0
                  /\ \/ i = 1
                     \/ calls[i].at - calls[i - 1].at >= reader.UpdateEvery

\* C26: at every Update call Progress.Total is the sum of the byte counts of
\* the reads of R so far, Progress.N the bytes read since the previous
\* Update call (or the start), 0 <= N <= Total, and the N of the calls so
\* far add up to Total.
C26_Accounting ==
    \A i \in 1 .. Len(calls) :
        LET before == IF i = 1 THEN 0 ELSE calls[i - 1].read
        IN  /\ calls[i].Total = SumBytes(reads, calls[i].read)
            /\ calls[i].N = SumBytes(reads, calls[i].read) - SumBytes(reads, before)
            /\ 0 <= calls[i].N
            /\ calls[i].N <= calls[i].Total
            /\ SumN(calls, i) = calls[i].Total

\* Two bytes in two reads, an Update call, two more bytes, a second call.
C26_Witness ==
    /\ reader.UpdateAfter = 2
    /\ Len(reads) = 3
    /\ reads[1].n = 1
    /\ Len(calls) = 2
    /\ calls[1] = [N |-> 2, Total |-> 2, Err |-> nil, at |-> 1, read |-> 2]
    /\ calls[2].N = 2
    /\ calls[2].Total = 4

\* C30: once a read of R has returned a non-nil error e, a later Read call
\* returns (0, e) without reading R, and what Progress() reports (N, Total,
\* Err) does not change any more.
C30_Sticky ==
    [][reader.err # nil
          => /\ reads' = reads
             /\ Progress(reader') = Progress(reader)
             /\ clock' = clock => ret' = [n |-> 0, err |-> reader.err]]_vars

\* Update is nil, R returned two bytes with an error, Read was called again.
C30_Witness ==
    /\ ~reader.Update
    /\ reader.err = "ErrUnexpectedEOF"
    /\ reads[Len(reads)] = [n |-> 2, err |-> "ErrUnexpectedEOF"]
    /\ reader.n > 0
    /\ ret = [n |-> 0, err |-> "ErrUnexpectedEOF"]

====
